---- MODULE Spec2Model ----
(***************************************************************************)
(* Model of the Xetra ETL job: the meta file (watermark) handling of       *)
(* xetra/common/meta_process.py, the S3 connector of xetra/common/s3.py    *)
(* and the report transformation of xetra/transformers/xetra_transformer.  *)
(*                                                                         *)
(* Calendar dates and their '%Y-%m-%d' strings are represented by the      *)
(* number of days since 2021-01-01: the ISO format is injective and keeps  *)
(* the order of the dates, so date arithmetic (timedelta) is integer       *)
(* arithmetic and string comparison of two dates is integer comparison.    *)
(***************************************************************************)
EXTENDS Integers, Sequences, FiniteSets, TLC

VARIABLES
    today,      \* datetime.today().date(), the wall clock of the job
    meta,       \* the object stored under meta_key on the target bucket
    call,       \* the last MetaProcess call: arguments, storage before, outcome
    upd,        \* the last update_meta_file call that was made
    raw,        \* the DataFrame handed to XetraETL.transform_report1
    extract_date, \* XetraETL.extract_date of the instance that transforms
    report,     \* what transform_report1 returned
    src,        \* the source bucket: the csv objects under each date prefix
    trg,        \* the target bucket: the object stored under each key
    etl,        \* the XetraETL instance: its arguments and date lists
    run,        \* the last etl_report1 run: storage before, steps, outcome
    io,         \* the last direct S3BucketConnector.write_df_to_s3 call
    wr,         \* the executions of update_meta_file in progress, step by step
    hist        \* the meta file they started from, and the order of their puts

vars == <<today, meta, call, upd, raw, extract_date, report, src, trg, etl, run, io,
          wr, hist>>

metaVars == <<today, meta, call, upd>>
etlVars == <<raw, extract_date, report>>
pipeVars == <<src, etl, run>>
s3Vars == <<trg, io>>
raceVars == <<wr, hist>>

----------------------------------------------------------------------------
(* Bounds of the model *)

\* the calendar of the model is the days 0 .. MaxDay
MaxDay == 2
\* the meta file never holds more than MaxRows rows
MaxRows == 3
\* update_meta_file is called with at most MaxNew dates
MaxNew == 2
\* the meta file found at the start has at most MaxInitRows rows
MaxInitRows == 1
\* the target bucket has the keys 1 .. MaxKeys besides meta_key
MaxKeys == 2

----------------------------------------------------------------------------
(* xetra/common/constants.py and the literals of meta_process.py *)

META_SOURCE_DATE_COL == "source_date"
META_PROCESS_COL == "datetime_of_processing"
META_FILE_FORMAT == "csv"
CSV == "csv"
PARQUET == "parquet"

\* datetime(2200, 1, 1).date(), in days since 2021-01-01
SentinelDate == 65378

Dates == 0 .. MaxDay
FirstDates == 1 .. (MaxDay + 1)

Range(s) == {s[i] : i \in DOMAIN s}

RECURSIVE SeqsUpTo(_, _)
SeqsUpTo(S, n) ==
    IF n = 0 THEN {<<>>}
    ELSE LET shorter == SeqsUpTo(S, n - 1)
         IN shorter \cup {Append(s, x) : s \in {t \in shorter : Len(t) = n - 1}, x \in S}

SetMin(S) == CHOOSE x \in S : \A y \in S : x <= y

----------------------------------------------------------------------------
(* DataFrames and the csv objects of the bucket *)

\* a DataFrame: its column names in order, and its rows, each a record over
\* the column names
DataFrame(cols, rows) == [cols |-> cols, rows |-> rows]

\* a table is never taken for empty
NeverEmpty(df) == FALSE

\* DataFrame.empty
IsEmptyDf(df) == Len(df.rows) = 0 \/ Len(df.cols) = 0

ColIndex(cols, c) == CHOOSE j \in DOMAIN cols : cols[j] = c

\* DataFrame.to_csv(index=False): a header line and one line of values per
\* row, in the order of the columns
ToCsv(df) ==
    [header |-> df.cols,
     lines |-> [i \in DOMAIN df.rows |->
                  [j \in DOMAIN df.cols |-> df.rows[i][df.cols[j]]]]]

\* pd.read_csv: the header gives the column names, each line a row
ReadCsv(body) ==
    [cols |-> body.header,
     rows |-> [i \in DOMAIN body.lines |->
                 [c \in Range(body.header) |->
                    body.lines[i][ColIndex(body.header, c)]]]]

\* a comparison of the number of columns only
ColumnCount(df) == Len(df.cols)

\* collections.Counter(df.columns)
ColumnCounter(df) ==
    [c \in Range(df.cols) |-> Cardinality({j \in DOMAIN df.cols : df.cols[j] = c})]

\* a missing value (NaN / None) of a DataFrame cell: a number that no value
\* of the data takes
NaN == -1000000

\* the columns of pd.concat([df_old, df_new]): those of the first frame, then
\* those only the second frame has
RECURSIVE UnionCols(_, _)
UnionCols(cols, more) ==
    IF more = <<>> THEN cols
    ELSE IF Head(more) \in Range(cols) THEN UnionCols(cols, Tail(more))
         ELSE UnionCols(Append(cols, Head(more)), Tail(more))

\* a row of a frame aligned to the columns cols, NaN where it has no value
Align(row, cols) ==
    [c \in Range(cols) |-> IF c \in DOMAIN row THEN row[c] ELSE NaN]

AlignRows(rows, cols) == [i \in DOMAIN rows |-> Align(rows[i], cols)]

\* pd.concat([df_new, df_old]), the frames swapped
ConcatNewFirst(df_old, df_new) ==
    LET cols == UnionCols(df_old.cols, df_new.cols)
    IN DataFrame(cols, AlignRows(df_new.rows, cols) \o AlignRows(df_old.rows, cols))

\* the new frame alone, the old rows lost
ConcatDropOld(df_old, df_new) ==
    LET cols == UnionCols(df_old.cols, df_new.cols)
    IN DataFrame(cols, AlignRows(df_new.rows, cols))

\* pd.concat([df_old, df_new]): the rows of the first frame followed by the
\* rows of the second, over the union of the columns
Concat(df_old, df_new) ==
    LET cols == UnionCols(df_old.cols, df_new.cols)
    IN DataFrame(cols, AlignRows(df_old.rows, cols) \o AlignRows(df_new.rows, cols))

NoObject == [exists |-> FALSE, body |-> [header |-> <<>>, lines |-> <<>>]]
Object(body) == [exists |-> TRUE, body |-> body]

\* S3BucketConnector.__put_object: one put that replaces the whole object
PutObject(obj, body) ==
    [obj |-> Object(body), ret |-> "True", err |-> "none", puts |-> 1]

\* write_df_to_s3 with the check of the format before the check for an empty
\* table
WriteChecksFormatFirst(obj, df, file_format) ==
    IF file_format \notin {CSV, PARQUET}
    THEN [obj |-> obj, ret |-> "raised", err |-> "WrongFormatException", puts |-> 0]
    ELSE IF IsEmptyDf(df)
    THEN [obj |-> obj, ret |-> "None", err |-> "none", puts |-> 0]
    ELSE PutObject(obj, ToCsv(df))

\* write_df_to_s3 that writes csv for a format it does not know
WriteUnknownAsCsv(obj, df, file_format) ==
    IF IsEmptyDf(df)
    THEN [obj |-> obj, ret |-> "None", err |-> "none", puts |-> 0]
    ELSE PutObject(obj, ToCsv(df))

\* S3BucketConnector.write_df_to_s3; the body of a stored object is kept as
\* its header and lines in either format
WriteDfToS3(obj, df, file_format) ==
    IF IsEmptyDf(df)
    THEN [obj |-> obj, ret |-> "None", err |-> "none", puts |-> 0]
    ELSE IF file_format = CSV THEN PutObject(obj, ToCsv(df))
    ELSE IF file_format = PARQUET THEN PutObject(obj, ToCsv(df))
    ELSE [obj |-> obj, ret |-> "raised", err |-> "WrongFormatException", puts |-> 0]

----------------------------------------------------------------------------
(* MetaProcess *)

MetaCols == <<META_SOURCE_DATE_COL, META_PROCESS_COL>>

\* df_new of update_meta_file: one row per date of extract_date_list, all
\* stamped with the time of the call
NewRows(extract_date_list, now) ==
    [i \in DOMAIN extract_date_list |->
       [c \in Range(MetaCols) |->
          IF c = META_SOURCE_DATE_COL THEN extract_date_list[i] ELSE now]]

\* update_meta_file without the except branch: NoSuchKey is raised to the
\* caller
UpdateFailsWithoutFile(extract_date_list, obj, now) ==
    LET df_new == DataFrame(MetaCols, NewRows(extract_date_list, now))
    IN IF ~obj.exists
       THEN [obj |-> obj, ret |-> "raised", err |-> "NoSuchKey", puts |-> 0]
       ELSE LET w == WriteDfToS3(obj, Concat(ReadCsv(obj.body), df_new), META_FILE_FORMAT)
            IN [obj |-> w.obj, ret |-> "True", err |-> "none", puts |-> w.puts]

\* update_meta_file that writes the new rows alone over the meta file
UpdateWritesNewOnly(extract_date_list, obj, now) ==
    LET df_new == DataFrame(MetaCols, NewRows(extract_date_list, now))
        w == WriteDfToS3(obj, df_new, META_FILE_FORMAT)
    IN [w EXCEPT !.ret = IF w.err = "none" THEN "True" ELSE "raised"]

\* MetaProcess.update_meta_file(extract_date_list, meta_key, s3_bucket_meta)
\* on the object obj stored under meta_key, called at time now
UpdateMetaFile(extract_date_list, obj, now) ==
    LET df_new == DataFrame(MetaCols, NewRows(extract_date_list, now))
        df_old == ReadCsv(obj.body)
    IN IF obj.exists /\ ColumnCounter(df_old) # ColumnCounter(df_new)
       THEN [obj |-> obj, ret |-> "raised", err |-> "WrongMetaFileException", puts |-> 0]
       ELSE LET df_all == IF obj.exists THEN Concat(df_old, df_new) ELSE df_new
                w == WriteDfToS3(obj, df_all, META_FILE_FORMAT)
            IN [w EXCEPT !.ret = IF w.err = "none" THEN "True" ELSE "raised"]

\* a read that leaves the meta file with its header and no lines
ClearedByRead(obj) ==
    IF obj.exists THEN Object([header |-> obj.body.header, lines |-> <<>>]) ELSE obj

\* the object under meta_key after read_csv_to_df: a read changes nothing
AfterRead(obj) == obj

\* update_meta_file up to its write: the frame df_all it is going to write,
\* made from the object obj it has read, or the exception it raises
ReadOld(extract_date_list, obj, now) ==
    LET df_new == DataFrame(MetaCols, NewRows(extract_date_list, now))
        df_old == ReadCsv(obj.body)
    IN IF obj.exists /\ ColumnCounter(df_old) # ColumnCounter(df_new)
       THEN [err |-> "WrongMetaFileException", df_all |-> df_new]
       ELSE [err |-> "none",
             df_all |-> IF obj.exists THEN Concat(df_old, df_new) ELSE df_new]

\* a write that reads the object again and appends the new rows to what is
\* stored at that moment
WriteAllRereads(current, df_all, extract_date_list, now) ==
    UpdateMetaFile(extract_date_list, current, now)

\* the write of update_meta_file: df_all, made from what was read before,
\* replaces the object current in one put
WriteAll(current, df_all, extract_date_list, now) ==
    WriteDfToS3(current, df_all, META_FILE_FORMAT)

\* the range without its + 1: today is left out
DateRangeExclusive(start, end) == [x \in 1 .. (end - start) |-> start + x - 1]

\* [start + timedelta(days=x) for x in range(0, (today - start).days + 1)]
DateRange(start, end) == [x \in 1 .. (end - start + 1) |-> start + x - 1]

\* dates instead of dates[1:]
RestAll(s) == s

\* dates[1:]
Rest(s) == SubSeq(s, 2, Len(s))

\* [date for date in dates if date > min_date]
RECURSIVE FromDateStrict(_, _)
FromDateStrict(dates, min_date) ==
    IF dates = <<>> THEN <<>>
    ELSE IF Head(dates) > min_date
         THEN <<Head(dates)>> \o FromDateStrict(Tail(dates), min_date)
         ELSE FromDateStrict(Tail(dates), min_date)

\* the whole candidate range, whatever the earliest missing date
FromDateAll(dates, min_date) == dates

\* [date for date in dates if date >= min_date]
RECURSIVE FromDate(_, _)
FromDate(dates, min_date) ==
    IF dates = <<>> THEN <<>>
    ELSE IF Head(dates) >= min_date
         THEN <<Head(dates)>> \o FromDate(Tail(dates), min_date)
         ELSE FromDate(Tail(dates), min_date)

Resolved(min_date, dates) ==
    [ret |-> "returned", err |-> "none", min_date |-> min_date, dates |-> dates]
ResolveRaised(err) ==
    [ret |-> "raised", err |-> err, min_date |-> 0, dates |-> <<>>]

\* return_date_list that takes the meta file for complete when it has as many
\* rows as there are dates to process
ReturnByRowCount(first_date, obj, now) ==
    LET dates == DateRange(first_date - 1, now)
    IN IF ~obj.exists THEN Resolved(first_date, dates)
       ELSE IF Len(obj.body.lines) >= Len(dates) - 1 THEN Resolved(SentinelDate, <<>>)
            ELSE Resolved(first_date, dates)

\* return_date_list that never reads the meta file
ReturnWholeRange(first_date, obj, now) ==
    Resolved(first_date, DateRange(first_date - 1, now))

\* return_date_list with the column check of update_meta_file added
ReturnChecksSchema(first_date, obj, now) ==
    LET start == first_date - 1
        dates == DateRange(start, now)
        df_meta == ReadCsv(obj.body)
        src_dates == {df_meta.rows[i][META_SOURCE_DATE_COL] : i \in DOMAIN df_meta.rows}
        dates_missing == Range(Rest(dates)) \ src_dates
    IN IF ~obj.exists THEN Resolved(first_date, dates)
       ELSE IF Range(df_meta.cols) # Range(MetaCols)
            THEN ResolveRaised("WrongMetaFileException")
            ELSE IF dates_missing # {}
                 THEN Resolved(SetMin(dates_missing),
                               FromDate(dates, SetMin(dates_missing) - 1))
                 ELSE Resolved(SentinelDate, <<>>)

\* MetaProcess.return_date_list(first_date, meta_key, s3_bucket_meta) on the
\* object obj stored under meta_key, called on the day now
ReturnDateList(first_date, obj, now) ==
    LET start == first_date - 1
        dates == DateRange(start, now)
        df_meta == ReadCsv(obj.body)
    IN IF ~obj.exists
       THEN \* NoSuchKey: every date from first_date - 1 day until today
            Resolved(first_date, dates)
       ELSE IF META_SOURCE_DATE_COL \notin Range(df_meta.cols)
            THEN \* df_meta['source_date'] on a frame without that column
                 ResolveRaised("KeyError")
            ELSE LET src_dates == {df_meta.rows[i][META_SOURCE_DATE_COL] :
                                      i \in DOMAIN df_meta.rows}
                     dates_missing == Range(Rest(dates)) \ src_dates
                 IN IF dates_missing # {}
                    THEN LET min_date == SetMin(dates_missing) - 1
                         IN Resolved(min_date + 1, FromDate(dates, min_date))
                    ELSE Resolved(SentinelDate, <<>>)

----------------------------------------------------------------------------
(* XetraETL.transform_report1 *)

(* Prices are in thousandths of a euro, volumes in pieces, the change in   *)
(* hundredths of a percent; instruments (ISIN) are numbered in the order   *)
(* of their codes and times of day in the order of the clock.              *)

\* the raw table has at most MaxRaw rows
MaxRaw == 2

RawCols ==
    <<"ISIN", "Date", "Time", "StartPrice", "EndPrice", "MinPrice", "MaxPrice",
      "TradedVolume">>

\* XetraSourceConfig: the configured source columns (Mnemonic, a label that
\* goes with the ISIN, is left out of the tables)
src_columns == RawCols

ReportCols ==
    <<"ISIN", "Date", "opening_price", "closing_price", "minimum_price",
      "maximum_price", "daily_traded_volume", "change_prev_closing">>

Isins == {1, 2}
RawDates == 1 .. 3
Times == {1, 2}
ExtractDates == {2, 3}

\* the prices and the volume of a raw row: two complete quotes with prices
\* that are not whole cents, and one whose StartPrice is missing
Quotes ==
    { [StartPrice |-> 1004, EndPrice |-> 1207, MinPrice |-> 996,
       MaxPrice |-> 1213, TradedVolume |-> 3],
      [StartPrice |-> 1210, EndPrice |-> 1004, MinPrice |-> 1004,
       MaxPrice |-> 1226, TradedVolume |-> 5],
      [StartPrice |-> NaN, EndPrice |-> 1101, MinPrice |-> 903,
       MaxPrice |-> 1307, TradedVolume |-> 7] }

RawRows ==
    { [c \in Range(RawCols) |->
         IF c = "ISIN" THEN i ELSE IF c = "Date" THEN d ELSE IF c = "Time" THEN t
         ELSE q[c]] :
      i \in Isins, d \in RawDates, t \in Times, q \in Quotes }

\* pd.DataFrame()
EmptyFrame == DataFrame(<<>>, <<>>)

\* tables without rows: pd.DataFrame(), and tables that have columns only
EmptyFrames ==
    {EmptyFrame, DataFrame(RawCols, <<>>), DataFrame(<<"ISIN", "Date">>, <<>>)}

RawFrames ==
    EmptyFrames \cup
    {DataFrame(RawCols, rows) : rows \in SeqsUpTo(RawRows, MaxRaw) \ {<<>>}}

\* the smallest element where the largest is asked for
MaxAsMin(S) == CHOOSE x \in S : \A y \in S : x <= y

SetMax(S) == CHOOSE x \in S : \A y \in S : x >= y

RECURSIVE SetSum(_, _)
\* the sum of f[i] over the indices i of I
SetSum(f, I) ==
    IF I = {} THEN 0
    ELSE LET i == CHOOSE j \in I : TRUE IN f[i] + SetSum(f, I \ {i})

\* n / d rounded to the nearest integer, halves to the even neighbour
\* (numpy.round), for d > 0
RoundDiv(n, d) ==
    LET q == n \div d
        r == n - q * d
    IN IF 2 * r < d THEN q
       ELSE IF 2 * r > d THEN q + 1
       ELSE IF q % 2 = 0 THEN q ELSE q + 1

\* DataFrame.round(decimals=2) of a price: to whole cents
Round2(price) == IF price = NaN THEN NaN ELSE 10 * RoundDiv(price, 10)

\* data_frame.loc[:, columns]: the rows restricted to the columns
Project(df, columns) ==
    DataFrame(columns, [i \in DOMAIN df.rows |-> [c \in Range(columns) |-> df.rows[i][c]]])

\* the rows kept as they are, those with a missing value too
KeepNa(rows) == rows

\* data_frame.dropna(): the rows without a missing value, in their order
RECURSIVE DropNa(_)
DropNa(rows) ==
    IF rows = <<>> THEN <<>>
    ELSE IF \E c \in DOMAIN Head(rows) : Head(rows)[c] = NaN
         THEN DropNa(Tail(rows))
         ELSE <<Head(rows)>> \o DropNa(Tail(rows))

\* the orders sort_values(by=[col]) can put the rows in: ascending by col;
\* the default sort is not stable, rows with equal values come in any order
SortOrders(rows, col) ==
    {p \in [DOMAIN rows -> DOMAIN rows] :
        /\ \A i, j \in DOMAIN rows : i # j => p[i] # p[j]
        /\ \A i, j \in DOMAIN rows : i < j => rows[p[i]][col] <= rows[p[j]][col]}

\* the rows of the (ISIN, Date) group of row i
GroupOf(rows, i) ==
    {j \in DOMAIN rows : rows[j].ISIN = rows[i].ISIN /\ rows[j].Date = rows[i].Date}

\* the position of row i in the order p
PosIn(p, i) == CHOOSE k \in DOMAIN p : p[k] = i

\* the value of the first row of the group in the order of the table, the
\* rows not sorted by time
GroupFirstUnsorted(rows, p, col, i) ==
    LET g == GroupOf(rows, i)
        first == CHOOSE j \in g : \A k \in g : j <= k
    IN rows[first][col]

\* .sort_values(by=[Time]).groupby([ISIN, Date])[col].transform('first'):
\* for row i the value of the first row of its group in the order p
GroupFirst(rows, p, col, i) ==
    LET g == GroupOf(rows, i)
        first == CHOOSE j \in g : \A k \in g : PosIn(p, j) <= PosIn(p, k)
    IN rows[first][col]

\* the EndPrice of the last row of the group
GroupLastFromEndPrice(rows, p, col, i) ==
    LET g == GroupOf(rows, i)
        last == CHOOSE j \in g : \A k \in g : PosIn(p, j) >= PosIn(p, k)
    IN rows[last]["EndPrice"]

\* ... .transform('last'): the value of the last row of its group
GroupLast(rows, p, col, i) ==
    LET g == GroupOf(rows, i)
        last == CHOOSE j \in g : \A k \in g : PosIn(p, j) >= PosIn(p, k)
    IN rows[last][col]

\* the keys of groupby([ISIN, Date]) in the order of its output: sorted by
\* ISIN, then by Date
GroupKeys(rows) == {<<rows[i].ISIN, rows[i].Date>> : i \in DOMAIN rows}

KeyBefore(k1, k2) == k1[1] < k2[1] \/ (k1[1] = k2[1] /\ k1[2] <= k2[2])

RECURSIVE SortedKeys(_)
SortedKeys(keys) ==
    IF keys = {} THEN <<>>
    ELSE LET k == CHOOSE x \in keys : \A y \in keys : KeyBefore(x, y)
         IN <<k>> \o SortedKeys(keys \ {k})

\* .groupby([ISIN, Date], as_index=False).agg({...}) of the rows, which carry
\* the per-row opening and closing prices op and cl
Aggregate(rows, op, cl) ==
    LET keys == SortedKeys(GroupKeys(rows))
    IN [n \in DOMAIN keys |->
          LET g == {i \in DOMAIN rows : <<rows[i].ISIN, rows[i].Date>> = keys[n]}
          IN [ISIN |-> keys[n][1],
              Date |-> keys[n][2],
              opening_price |-> SetMin({op[i] : i \in g}),
              closing_price |-> SetMin({cl[i] : i \in g}),
              minimum_price |-> SetMin({rows[i].MinPrice : i \in g}),
              maximum_price |-> SetMax({rows[i].MaxPrice : i \in g}),
              daily_traded_volume |-> SetSum([i \in g |-> rows[i].TradedVolume], g)]]

\* .sort_values(by=[Date]).groupby([ISIN])[opening_price].shift(1): the
\* opening price of the preceding aggregated date of the same instrument,
\* missing for its first date
Shifted(agg, n) ==
    LET before == {m \in DOMAIN agg : agg[m].ISIN = agg[n].ISIN /\ agg[m].Date < agg[n].Date}
    IN IF before = {} THEN NaN
       ELSE agg[CHOOSE m \in before : \A k \in before : agg[k].Date <= agg[m].Date].opening_price

\* the change computed from the prices as the report shows them, rounded to
\* 2 decimals
ChangeFromRounded(opening, previous) ==
    IF previous = NaN THEN NaN
    ELSE RoundDiv(10000 * (Round2(opening) - Round2(previous)), Round2(previous))

\* (opening - previous) / previous * 100, rounded to 2 decimals: in
\* hundredths of a percent
Change(opening, previous) ==
    IF previous = NaN THEN NaN
    ELSE RoundDiv(10000 * (opening - previous), previous)

\* the rows after the cutoff date only
RECURSIVE AfterExtractDate(_, _)
AfterExtractDate(rows, cutoff) ==
    IF rows = <<>> THEN <<>>
    ELSE IF Head(rows).Date > cutoff
         THEN <<Head(rows)>> \o AfterExtractDate(Tail(rows), cutoff)
         ELSE AfterExtractDate(Tail(rows), cutoff)

\* data_frame[data_frame.Date >= extract_date].reset_index(drop=True)
RECURSIVE FromExtractDate(_, _)
FromExtractDate(rows, cutoff) ==
    IF rows = <<>> THEN <<>>
    ELSE IF Head(rows).Date >= cutoff
         THEN <<Head(rows)>> \o FromExtractDate(Tail(rows), cutoff)
         ELSE FromExtractDate(Tail(rows), cutoff)

Returned(df) == [ret |-> "returned", err |-> "none", df |-> df]
Raised(err) == [ret |-> "raised", err |-> err, df |-> EmptyFrame]

\* XetraETL.transform_report1(data_frame) of an instance with the cutoff date
\* cutoff, the rows sorted by time in the order p of the rows that are left
\* after dropna
TransformReport1(data_frame, cutoff, p) ==
    IF IsEmptyDf(data_frame) THEN Returned(data_frame)
    ELSE IF ~(Range(src_columns) \subseteq Range(data_frame.cols))
    THEN Raised("KeyError")
    ELSE
    LET rows == DropNa(Project(data_frame, src_columns).rows)
        op == [i \in DOMAIN rows |-> GroupFirst(rows, p, "StartPrice", i)]
        cl == [i \in DOMAIN rows |-> GroupLast(rows, p, "StartPrice", i)]
        agg == Aggregate(rows, op, cl)
        all == [n \in DOMAIN agg |->
                  [c \in Range(ReportCols) |->
                     IF c = "change_prev_closing"
                     THEN Change(agg[n].opening_price, Shifted(agg, n))
                     ELSE IF c \in {"ISIN", "Date", "daily_traded_volume"} THEN agg[n][c]
                     ELSE Round2(agg[n][c])]]
    IN Returned(DataFrame(ReportCols, FromExtractDate(all, cutoff)))

\* the orders in which transform_report1 can sort the rows of data_frame
TimeOrders(data_frame) ==
    IF IsEmptyDf(data_frame) \/ ~(Range(src_columns) \subseteq Range(data_frame.cols))
    THEN {<<>>}
    ELSE SortOrders(DropNa(Project(data_frame, src_columns).rows), "Time")

NoReport == [ret |-> "none", err |-> "none", df |-> EmptyFrame]

----------------------------------------------------------------------------
(* XetraETL: the instance, extract, load and etl_report1 *)

\* the row of the source object of the day d written at the hour t
SrcRow(d, t) ==
    LET q == CHOOSE x \in Quotes :
                 x.StartPrice # NaN /\ (t = 1) = (x.StartPrice < x.EndPrice)
    IN [c \in Range(RawCols) |->
          IF c = "ISIN" THEN 1 ELSE IF c = "Date" THEN d ELSE IF c = "Time" THEN t
          ELSE q[c]]

\* the csv object <d>/<d>_BINS_XETR<t>.csv of the source bucket
SrcFile(d, t) == ToCsv(DataFrame(RawCols, <<SrcRow(d, t)>>))

\* the first n objects of the day d on the source bucket, in the order of
\* their keys
SrcObjects(d, n) == [t \in 1 .. n |-> SrcFile(d, t)]

\* the csv object of the day d of a source that delivers no EndPrice column
SrcFileWithoutEndPrice(d) ==
    ToCsv(Project(DataFrame(RawCols, <<SrcRow(d, 1)>>),
                  SelectSeq(RawCols, LAMBDA c : c # "EndPrice")))

\* the source buckets of the model: one without objects, those where the
\* days have no object, one object and two objects in turn, and one whose
\* objects lack a configured column
SrcBuckets ==
    {[d \in Dates |-> <<>>]} \cup
    {[d \in Dates |-> SrcObjects(d, (d + shift) % 3)] : shift \in 0 .. 2} \cup
    {[d \in Dates |-> <<SrcFileWithoutEndPrice(d)>>]}

\* S3BucketConnector.list_files_in_prefix(prefix) on the source bucket, the
\* objects standing for their keys
ListFilesInPrefix(bucket, prefix) ==
    IF prefix \in DOMAIN bucket THEN bucket[prefix] ELSE <<>>

\* the files of extract: for each date of the list, in the order of the list,
\* the objects under the date
RECURSIVE Files(_, _)
Files(extract_date_list, bucket) ==
    IF extract_date_list = <<>> THEN <<>>
    ELSE ListFilesInPrefix(bucket, Head(extract_date_list))
             \o Files(Tail(extract_date_list), bucket)

\* pd.concat(frames) of a list of frames that is not empty
RECURSIVE ConcatAll(_)
ConcatAll(frames) ==
    IF Len(frames) = 1 THEN frames[1]
    ELSE Concat(ConcatAll(SubSeq(frames, 1, Len(frames) - 1)), frames[Len(frames)])

\* the files of the first date of the list only
ExtractFirstDateOnly(extract_date_list, bucket) ==
    LET files == IF extract_date_list = <<>> THEN <<>>
                 ELSE ListFilesInPrefix(bucket, Head(extract_date_list))
    IN IF files = <<>> THEN EmptyFrame
       ELSE ConcatAll([i \in DOMAIN files |-> ReadCsv(files[i])])

\* XetraETL.extract
Extract(extract_date_list, bucket) ==
    LET files == Files(extract_date_list, bucket)
    IN IF files = <<>> THEN EmptyFrame
       ELSE ConcatAll([i \in DOMAIN files |-> ReadCsv(files[i])])

\* the index of the frame extract returns: ignore_index=True numbers the rows
\* from 0
ExtractIndex(data_frame) == [i \in DOMAIN data_frame.rows |-> i - 1]

\* the whole extraction window taken for the dates to record
MetaUpdateAll(extract_date_list, min_date) == extract_date_list

\* the dates to record, the anchor date of the window included
MetaUpdateWithAnchor(extract_date_list, min_date) ==
    SelectSeq(extract_date_list, LAMBDA date : date >= min_date - 1)

\* [date for date in extract_date_list if date >= extract_date]
MetaUpdateList(extract_date_list, min_date) ==
    SelectSeq(extract_date_list, LAMBDA date : date >= min_date)

\* XetraETL.__init__ with the meta file obj on the day now
NewXetraETL(first_date, trg_format, obj, now) ==
    LET r == ReturnDateList(first_date, obj, now)
    IN IF r.ret = "raised"
       THEN [made |-> FALSE, first_date |-> first_date, trg_format |-> trg_format,
             extract_date |-> 0, extract_date_list |-> <<>>,
             meta_update_list |-> <<>>, err |-> r.err, ran |-> FALSE, now |-> now]
       ELSE [made |-> TRUE, first_date |-> first_date, trg_format |-> trg_format,
             extract_date |-> r.min_date, extract_date_list |-> r.dates,
             meta_update_list |-> MetaUpdateList(r.dates, r.min_date), err |-> "none",
             ran |-> FALSE, now |-> now]

\* XetraETL.load(data_frame): the report is written under the target key,
\* which holds target, then the meta file obj is updated on the day now
Load(data_frame, trg_format, meta_update_list, target, obj, now) ==
    LET w == WriteDfToS3(target, data_frame, trg_format)
    IN IF w.err # "none"
       THEN [ret |-> "raised", err |-> w.err, target |-> target, meta |-> obj,
             report_puts |-> 0, meta_puts |-> 0]
       ELSE LET u == UpdateMetaFile(meta_update_list, obj, now)
            IN [ret |-> IF u.err = "none" THEN "True" ELSE "raised",
                err |-> u.err, target |-> w.obj, meta |-> u.obj,
                report_puts |-> w.puts, meta_puts |-> u.puts]


----------------------------------------------------------------------------
(* The meta files the job can find on the bucket *)

Headers ==
    { <<META_SOURCE_DATE_COL, META_PROCESS_COL>>,
      <<META_PROCESS_COL, META_SOURCE_DATE_COL>>,
      <<"wrong_column", META_PROCESS_COL>>,
      <<META_SOURCE_DATE_COL>>,
      <<META_SOURCE_DATE_COL, META_PROCESS_COL, "extra_column">> }

\* a csv body with header h, one line per date of ds, processed at stamp
MetaBody(h, ds, stamp) ==
    [header |-> h,
     lines |-> [i \in DOMAIN ds |->
                  [j \in DOMAIN h |->
                     IF h[j] \in {META_SOURCE_DATE_COL, "wrong_column"} THEN ds[i]
                     ELSE IF h[j] = META_PROCESS_COL THEN stamp ELSE 0]]]

InitObjects(stamp) ==
    {NoObject} \cup
    {Object(MetaBody(h, ds, stamp)) : h \in Headers, ds \in SeqsUpTo(Dates, MaxInitRows)}

NoCall ==
    [op |-> "none", dates |-> <<>>, first_date |-> 0, now |-> 0, pre |-> NoObject,
     ret |-> "none", err |-> "none", puts |-> 0, min_date |-> 0, ret_dates |-> <<>>]

NoUpdate == [made |-> FALSE, dates |-> <<>>, pre |-> NoObject, err |-> "none"]


InitMeta ==
    /\ today \in 1 .. MaxDay
    /\ meta \in InitObjects(today)
    /\ call = NoCall
    /\ upd = NoUpdate

InitEtlIdle ==
    /\ raw = EmptyFrame
    /\ extract_date = 0
    /\ report = NoReport

TrgKeys == 1 .. MaxKeys

\* the file formats write_df_to_s3 is called with
Formats == {CSV, PARQUET, "wrong_format"}

NoIo ==
    [op |-> "none", df |-> EmptyFrame, key |-> 0, format |-> "none",
     pre |-> [k \in TrgKeys |-> NoObject], ret |-> "none", err |-> "none", puts |-> 0]

InitS3Idle ==
    /\ trg = [k \in TrgKeys |-> NoObject]
    /\ io = NoIo

\* no instance of XetraETL has been made; now is the day of __init__
NoEtl ==
    [made |-> FALSE, first_date |-> 0, trg_format |-> "none", extract_date |-> 0,
     extract_date_list |-> <<>>, meta_update_list |-> <<>>, err |-> "none",
     ran |-> FALSE, now |-> 0]

\* no run of etl_report1 has been made; n counts the runs, made_on is the day
\* the instance of the run was made and now the day of its load
NoRun ==
    [n |-> 0, ret |-> "none", err |-> "none", now |-> 0, key |-> 0,
     extract_date |-> 0, extract_date_list |-> <<>>, trg_format |-> "none",
     index |-> <<>>, pre |-> NoObject, post |-> NoObject,
     report_puts |-> 0, meta_puts |-> 0, first_date |-> 0, made_on |-> 0]

InitPipeIdle ==
    /\ src = [d \in Dates |-> <<>>]
    /\ etl = NoEtl
    /\ run = NoRun

Writers == {1, 2}

\* an execution of update_meta_file that has not started
Idle == [pc |-> "idle", dates |-> <<>>, df_all |-> EmptyFrame, err |-> "none"]

InitRaceIdle ==
    /\ wr = [w \in Writers |-> Idle]
    /\ hist = [init |-> NoObject, raced |-> FALSE, puts |-> <<>>]

Init == InitMeta /\ InitEtlIdle /\ InitPipeIdle /\ InitS3Idle /\ InitRaceIdle

\* the lists of dates update_meta_file is called with: any order, repeats
\* allowed, the empty list included
DateLists == SeqsUpTo(Dates, MaxNew)

\* a call of MetaProcess.update_meta_file with the list extract_date_list
UpdateMetaFileWith(extract_date_list) ==
    /\ Len(meta.body.lines) + Len(extract_date_list) <= MaxRows
    /\ \E r \in {UpdateMetaFile(extract_date_list, meta, today)} :
          /\ meta' = r.obj
          /\ call' = [op |-> "update_meta_file", dates |-> extract_date_list,
                      first_date |-> 0, now |-> today, pre |-> meta,
                      ret |-> r.ret, err |-> r.err, puts |-> r.puts,
                      min_date |-> 0, ret_dates |-> <<>>]
          /\ upd' = [made |-> TRUE, dates |-> extract_date_list,
                     pre |-> meta, err |-> r.err]
    /\ UNCHANGED <<raceVars, today, etlVars, pipeVars, s3Vars>>

\* a call of MetaProcess.update_meta_file
UpdateMetaFileCall == \E extract_date_list \in DateLists : UpdateMetaFileWith(extract_date_list)

\* a call of MetaProcess.return_date_list
ReturnDateListCall ==
    \E first_date \in FirstDates :
        /\ \E r \in {ReturnDateList(first_date, meta, today)} :
              call' = [op |-> "return_date_list", dates |-> <<>>,
                       first_date |-> first_date, now |-> today, pre |-> meta,
                       ret |-> r.ret, err |-> r.err, puts |-> 0,
                       min_date |-> r.min_date, ret_dates |-> r.dates]
        /\ UNCHANGED <<raceVars, today, meta, upd, etlVars, pipeVars, s3Vars>>

Next == UpdateMetaFileCall \/ ReturnDateListCall

Spec == Init /\ [][Next]_vars

InitMetaIdle ==
    /\ today = 1
    /\ meta = NoObject
    /\ call = NoCall
    /\ upd = NoUpdate

InitTransform ==
    /\ InitMetaIdle
    /\ InitRaceIdle
    /\ InitPipeIdle
    /\ InitS3Idle
    /\ raw \in RawFrames
    /\ extract_date \in ExtractDates
    /\ report = NoReport

\* a call of XetraETL.transform_report1 with the raw table
TransformReport1Call ==
    /\ report.ret = "none"
    /\ \E p \in TimeOrders(raw) : report' = TransformReport1(raw, extract_date, p)
    /\ UNCHANGED <<raceVars, raw, extract_date, metaVars, pipeVars, s3Vars>>

NextTransform == TransformReport1Call

SpecTransform == InitTransform /\ [][NextTransform]_vars

\* the tables write_df_to_s3 is called with
WriteFrames ==
    EmptyFrames \cup
    {DataFrame(MetaCols, NewRows(<<d>>, 1)) : d \in {1, 2}}

InitS3 == InitMetaIdle /\ InitEtlIdle /\ InitPipeIdle /\ InitS3Idle /\ InitRaceIdle

\* a call of S3BucketConnector.write_df_to_s3
WriteDfToS3Call ==
    \E df \in WriteFrames, key \in TrgKeys, file_format \in Formats :
        /\ \E r \in {WriteDfToS3(trg[key], df, file_format)} :
              /\ trg' = [trg EXCEPT ![key] = r.obj]
              /\ io' = [op |-> "write_df_to_s3", df |-> df, key |-> key,
                        format |-> file_format, pre |-> trg,
                        ret |-> r.ret, err |-> r.err, puts |-> r.puts]
        /\ UNCHANGED <<raceVars, metaVars, etlVars, pipeVars>>

NextS3 == WriteDfToS3Call

SpecS3 == InitS3 /\ [][NextS3]_vars

\* the meta files a pipeline run can find: none, or one with a row of the
\* first day, well-formed or with another header
PipelineObjects(stamp) ==
    {NoObject} \cup
    {Object(MetaBody(h, ds, stamp)) :
        h \in {<<META_SOURCE_DATE_COL, META_PROCESS_COL>>,
               <<"wrong_column", META_PROCESS_COL>>,
               <<META_SOURCE_DATE_COL, META_PROCESS_COL, "extra_column">>},
        ds \in {<<1>>}}

InitPipeline ==
    /\ today = 1
    /\ meta \in PipelineObjects(today)
    /\ call = NoCall
    /\ upd = NoUpdate
    /\ InitEtlIdle
    /\ src \in SrcBuckets
    /\ etl = NoEtl
    /\ run = NoRun
    /\ InitS3Idle
    /\ InitRaceIdle

\* the clock passes midnight
Tick ==
    /\ today < MaxDay
    /\ today' = today + 1
    /\ UNCHANGED <<raceVars, meta, call, upd, etlVars, pipeVars, s3Vars>>

\* XetraETL(...) is constructed, as run.py does for each run of the job
Construct ==
    \E first_date \in FirstDates, trg_format \in Formats :
        /\ ~etl.made \/ etl.ran
        /\ run.n < MaxKeys
        /\ etl' = NewXetraETL(first_date, trg_format, meta, today)
        /\ extract_date' = etl'.extract_date
        /\ UNCHANGED <<raceVars, metaVars, raw, report, src, run, s3Vars>>

\* XetraETL.etl_report1 of the instance: extract, transform_report1, load
EtlReport1 ==
    /\ etl.made /\ ~etl.ran
    /\ \E data_frame \in {Extract(etl.extract_date_list, src)} :
       \E p \in TimeOrders(data_frame) :
       \E t \in {TransformReport1(data_frame, etl.extract_date, p)} :
       \E l \in {IF t.ret = "raised"
                 THEN [ret |-> "raised", err |-> t.err, target |-> trg[run.n + 1],
                       meta |-> meta, report_puts |-> 0, meta_puts |-> 0]
                 ELSE Load(t.df, etl.trg_format, etl.meta_update_list,
                           trg[run.n + 1], meta, today)} :
          /\ raw' = data_frame
          /\ report' = t
          /\ trg' = [trg EXCEPT ![run.n + 1] = l.target]
          /\ meta' = l.meta
          /\ run' = [n |-> run.n + 1, ret |-> l.ret, err |-> l.err, now |-> today,
                     key |-> run.n + 1, extract_date |-> etl.extract_date,
                     extract_date_list |-> etl.extract_date_list,
                     trg_format |-> etl.trg_format,
                     index |-> ExtractIndex(data_frame), pre |-> meta, post |-> l.meta,
                     report_puts |-> l.report_puts, meta_puts |-> l.meta_puts,
                     first_date |-> etl.first_date, made_on |-> etl.now]
    /\ etl' = [etl EXCEPT !.ran = TRUE]
    /\ UNCHANGED <<raceVars, today, call, upd, extract_date, src, io>>

\* one call of update_meta_file from outside the job, before its first run
UpdateMetaFileOutside ==
    /\ ~upd.made
    /\ ~etl.made /\ run.n = 0
    /\ \E extract_date_list \in {<<>>, <<today>>} : UpdateMetaFileWith(extract_date_list)

NextPipeline == Construct \/ EtlReport1 \/ Tick \/ UpdateMetaFileOutside

SpecPipeline == InitPipeline /\ [][NextPipeline]_vars

\* the lists the racing executions are called with
BatchLists == {l \in DateLists : Len(l) <= 1} \cup {<<1, 0>>}

InitRace ==
    /\ today = 1
    /\ meta \in PipelineObjects(today)
    /\ call = NoCall
    /\ upd = NoUpdate
    /\ InitEtlIdle /\ InitPipeIdle /\ InitS3Idle
    /\ wr = [w \in Writers |-> Idle]
    /\ hist = [init |-> meta, raced |-> FALSE, puts |-> <<>>]

\* execution w of update_meta_file starts and reads the meta file (lines
\* 28-44)
ReadMeta(w) ==
    \E extract_date_list \in BatchLists :
        /\ wr[w].pc = "idle"
        /\ \E r \in {ReadOld(extract_date_list, meta, today)} :
              wr' = [wr EXCEPT ![w] = [pc |-> IF r.err = "none" THEN "read" ELSE "raised",
                                       dates |-> extract_date_list,
                                       df_all |-> r.df_all, err |-> r.err]]
        /\ meta' = AfterRead(meta)
        /\ hist' = [hist EXCEPT !.raced = @ \/ \E v \in Writers \ {w} : wr[v].pc = "read"]
        /\ UNCHANGED <<today, call, upd, etlVars, pipeVars, s3Vars>>

\* execution w writes what it has made (line 46) and returns
WriteMeta(w) ==
    /\ wr[w].pc = "read"
    /\ \E r \in {WriteAll(meta, wr[w].df_all, wr[w].dates, today)} :
          /\ meta' = r.obj
          /\ hist' = [hist EXCEPT !.puts = IF r.puts = 1 THEN Append(@, w) ELSE @]
    /\ wr' = [wr EXCEPT ![w].pc = "done"]
    /\ UNCHANGED <<today, call, upd, etlVars, pipeVars, s3Vars>>

\* the process of execution w dies between its read and its write
Crash(w) ==
    /\ wr[w].pc = "read"
    /\ wr' = [wr EXCEPT ![w].pc = "crashed"]
    /\ UNCHANGED <<metaVars, hist, etlVars, pipeVars, s3Vars>>

NextRace == \E w \in Writers : ReadMeta(w) \/ WriteMeta(w) \/ Crash(w)

SpecRace == InitRace /\ [][NextRace]_vars

----------------------------------------------------------------------------
(* Reading the stored meta file, for the properties below *)

\* the object has exactly the two columns of the meta file
WellFormed(obj) ==
    /\ obj.exists
    /\ Len(obj.body.header) = 2
    /\ Range(obj.body.header) = {META_SOURCE_DATE_COL, META_PROCESS_COL}

\* the rows of a well-formed meta file: <<source_date, datetime_of_processing>>
StoredRows(obj) ==
    [i \in DOMAIN obj.body.lines |->
       <<obj.body.lines[i][ColIndex(obj.body.header, META_SOURCE_DATE_COL)],
         obj.body.lines[i][ColIndex(obj.body.header, META_PROCESS_COL)]>>]

\* the source dates a meta file records
StoredDates(obj) ==
    IF obj.exists /\ META_SOURCE_DATE_COL \in Range(obj.body.header)
    THEN {obj.body.lines[i][ColIndex(obj.body.header, META_SOURCE_DATE_COL)] :
             i \in DOMAIN obj.body.lines}
    ELSE {}

\* the rows update_meta_file has to add for a list of dates at time now
StampedRows(dates, now) == [i \in DOMAIN dates |-> <<dates[i], now>>]

\* s is the ascending run of the consecutive dates a, a + 1, ..., b
IsRun(s, a, b) ==
    /\ Range(s) = a .. b
    /\ \A i \in DOMAIN s : \A j \in DOMAIN s : i < j => s[i] < s[j]

\* the dates of first_date .. now that the meta file does not record
Unprocessed(first_date, now, obj) == (first_date .. now) \ StoredDates(obj)

IsResolve == call.op = "return_date_list"
IsUpdate == call.op = "update_meta_file"

----------------------------------------------------------------------------
(* Properties of MetaProcess *)

\* C1: without a meta file, return_date_list returns cutoff_date =
\* first_date and every date from first_date - 1 day to today, ascending,
\* none skipped, none repeated.
C1_NoMetaFileFullRange ==
    (IsResolve /\ ~call.pre.exists) =>
        /\ call.ret = "returned"
        /\ call.min_date = call.first_date
        /\ IsRun(call.ret_dates, call.first_date - 1, call.now)

C1_Witness ==
    IsResolve /\ ~call.pre.exists /\ Len(call.ret_dates) >= 3

\* C2: with a well-formed meta file that lacks a date of first_date .. today,
\* return_date_list returns cutoff_date = M, the earliest such date, and
\* every date from M - 1 day to today, dates already recorded included.
C2_EarliestMissingDate ==
    (IsResolve /\ WellFormed(call.pre)
       /\ Unprocessed(call.first_date, call.now, call.pre) # {}) =>
        LET M == SetMin(Unprocessed(call.first_date, call.now, call.pre))
        IN /\ call.ret = "returned"
           /\ call.min_date = M
           /\ IsRun(call.ret_dates, M - 1, call.now)

C2_Witness ==
    /\ IsResolve /\ WellFormed(call.pre)
    /\ Unprocessed(call.first_date, call.now, call.pre) # {}
    /\ \E d \in StoredDates(call.pre) : d > call.min_date /\ d \in Range(call.ret_dates)

\* C3: with a well-formed meta file that records every date of
\* first_date .. today, return_date_list returns no dates and the cutoff
\* date 2200-01-01.
C3_NothingToExtract ==
    (IsResolve /\ WellFormed(call.pre)
       /\ Unprocessed(call.first_date, call.now, call.pre) = {}) =>
        /\ call.ret = "returned"
        /\ call.ret_dates = <<>>
        /\ call.min_date = SentinelDate

C3_Witness ==
    /\ IsResolve /\ WellFormed(call.pre)
    /\ call.first_date < call.now
    /\ Unprocessed(call.first_date, call.now, call.pre) = {}
    /\ call.ret_dates = <<>>

\* C4: after update_meta_file(new_dates) with non-empty new_dates on no or a
\* well-formed meta file, return_date_list with first_date <= min(new_dates)
\* and every date of first_date .. today in the prior meta file or in
\* new_dates returns no dates.
C4_Covered ==
    /\ IsResolve /\ upd.made /\ upd.dates # <<>>
    /\ (~upd.pre.exists \/ WellFormed(upd.pre))
    /\ call.first_date <= SetMin(Range(upd.dates))
    /\ \A d \in call.first_date .. call.now :
          d \in StoredDates(upd.pre) \cup Range(upd.dates)

C4_UpdateThenResolveEmpty == C4_Covered => (call.ret = "returned" /\ call.ret_dates = <<>>)

C4_Witness ==
    /\ C4_Covered /\ call.ret_dates = <<>>
    /\ \E d \in call.first_date .. call.now :
          d \in StoredDates(upd.pre) /\ d \notin Range(upd.dates)

\* C5: on a well-formed meta file, update_meta_file with non-empty new_dates
\* stores the old rows followed by one new row per element of new_dates, in
\* the given order, repeated dates kept, nothing sorted.
C5_AppendsInOrder ==
    (IsUpdate /\ WellFormed(call.pre) /\ call.dates # <<>>) =>
        /\ call.ret = "True"
        /\ WellFormed(meta)
        /\ StoredRows(meta) = StoredRows(call.pre) \o StampedRows(call.dates, call.now)

C5_Witness ==
    /\ IsUpdate /\ WellFormed(call.pre) /\ Len(call.dates) = 2
    /\ call.dates[1] > call.dates[2]
    /\ call.dates[2] \in StoredDates(call.pre)
    /\ Len(meta.body.lines) = 3

\* C6: without a meta file, update_meta_file with non-empty new_dates creates
\* it with one row per element of new_dates, in the given order, and
\* returns True.
C6_CreatesMetaFile ==
    (IsUpdate /\ ~call.pre.exists /\ call.dates # <<>>) =>
        /\ call.ret = "True" /\ call.err = "none"
        /\ WellFormed(meta)
        /\ StoredRows(meta) = StampedRows(call.dates, call.now)

C6_Witness ==
    /\ IsUpdate /\ ~call.pre.exists /\ Len(call.dates) = 2
    /\ meta.exists /\ Len(meta.body.lines) = 2

\* C7: on a meta file whose columns are not the two expected ones,
\* update_meta_file raises WrongMetaFileException and the stored object is
\* the same before and after.
C7_WrongColumnsRejected ==
    (IsUpdate /\ call.pre.exists /\ ~WellFormed(call.pre)) =>
        /\ call.ret = "raised" /\ call.err = "WrongMetaFileException"
        /\ call.puts = 0
        /\ meta = call.pre

C7_Witness ==
    /\ IsUpdate /\ call.pre.exists /\ call.dates # <<>>
    /\ Len(call.pre.body.header) = 3
    /\ call.err = "WrongMetaFileException"

\* the meta file has the column wrong_column in the place of source_date
HasWrongColumn(obj) ==
    /\ obj.exists
    /\ Range(obj.body.header) = {"wrong_column", META_PROCESS_COL}

\* C8 as claimed: on a meta file with wrong_column instead of source_date,
\* return_date_list raises the WrongMetaFileException of update_meta_file.
C8_ResolveRaisesWrongMetaFile ==
    (IsResolve /\ HasWrongColumn(call.pre)) =>
        (call.ret = "raised" /\ call.err = "WrongMetaFileException")

\* C8 amended: on such a meta file return_date_list fails with KeyError,
\* which is not the error update_meta_file raises for the same file.
C8_ResolveRaisesKeyError ==
    (IsResolve /\ HasWrongColumn(call.pre)) =>
        /\ call.ret = "raised" /\ call.err = "KeyError"
        /\ \A l \in DateLists :
              UpdateMetaFile(l, call.pre, call.now).err = "WrongMetaFileException"

C8_Witness ==
    IsResolve /\ HasWrongColumn(call.pre) /\ Len(call.pre.body.lines) > 0

\* C9: update_meta_file with an empty list returns True and puts nothing,
\* whether there is no meta file or a well-formed one.
C9_EmptyListWritesNothing ==
    (IsUpdate /\ call.dates = <<>> /\ (~call.pre.exists \/ WellFormed(call.pre))) =>
        (call.ret = "True" /\ call.puts = 0)

----------------------------------------------------------------------------
(* Properties of transform_report1 *)

\* the rows of the raw table without a missing value in a configured column
CompleteRows ==
    {i \in DOMAIN raw.rows : \A c \in Range(src_columns) : raw.rows[i][c] # NaN}

\* the complete rows of the group of instrument isin on the day date
RawGroup(isin, date) ==
    {i \in CompleteRows : raw.rows[i].ISIN = isin /\ raw.rows[i].Date = date}

EarliestOf(g) == {i \in g : \A j \in g : raw.rows[i].Time <= raw.rows[j].Time}
LatestOf(g) == {i \in g : \A j \in g : raw.rows[i].Time >= raw.rows[j].Time}

\* the groups the report has to show: those with a complete row, on or after
\* the cutoff date
ReportedGroups ==
    {<<raw.rows[i].ISIN, raw.rows[i].Date>> : i \in {j \in CompleteRows :
                                                     raw.rows[j].Date >= extract_date}}

\* the rows of the report for the group k
ReportRowsOf(k) ==
    {n \in DOMAIN report.df.rows :
        report.df.rows[n].ISIN = k[1] /\ report.df.rows[n].Date = k[2]}

\* v is the price x rounded to 2 decimals (whole cents)
IsRounded2(v, x) == v % 10 = 0 /\ v - x <= 5 /\ x - v <= 5

\* C10 as claimed: for every (isin, date) group the opening price of the
\* report is the start price of the row with the earliest time and the
\* closing price is the start price of the row with the latest time.
C10_OpenCloseAreStartPrices ==
    report.ret = "returned" =>
        \A k \in ReportedGroups :
            \E n \in ReportRowsOf(k) :
                /\ \E i \in EarliestOf(RawGroup(k[1], k[2])) :
                      report.df.rows[n].opening_price = raw.rows[i].StartPrice
                /\ \E i \in LatestOf(RawGroup(k[1], k[2])) :
                      report.df.rows[n].closing_price = raw.rows[i].StartPrice

\* C10 amended: for every (isin, date) group of the report the opening price
\* is the start price, rounded to 2 decimals, of a row with the earliest time
\* among the complete rows of the group, and the closing price is the start
\* price, rounded to 2 decimals, of a row with the latest time.
C10_OpenCloseAreRoundedStartPrices ==
    report.ret = "returned" =>
        \A k \in ReportedGroups :
            \E n \in ReportRowsOf(k) :
                /\ \E i \in EarliestOf(RawGroup(k[1], k[2])) :
                      IsRounded2(report.df.rows[n].opening_price, raw.rows[i].StartPrice)
                /\ \E i \in LatestOf(RawGroup(k[1], k[2])) :
                      IsRounded2(report.df.rows[n].closing_price, raw.rows[i].StartPrice)

\* a group whose latest row comes first in the raw table, with start prices
\* that differ and are not whole cents
C10_Witness ==
    /\ report.ret = "returned"
    /\ Len(raw.rows) = 2
    /\ <<raw.rows[1].ISIN, raw.rows[1].Date>> \in ReportedGroups
    /\ RawGroup(raw.rows[1].ISIN, raw.rows[1].Date) = {1, 2}
    /\ raw.rows[1].Time > raw.rows[2].Time
    /\ raw.rows[1].StartPrice # raw.rows[2].StartPrice
    /\ Len(report.df.rows) = 1
    /\ report.df.rows[1].opening_price = Round2(raw.rows[2].StartPrice)
    /\ report.df.rows[1].opening_price # raw.rows[2].StartPrice
    /\ report.df.rows[1].closing_price = Round2(raw.rows[1].StartPrice)


\* the values of the column col in the rows g of the raw table
RawValues(g, col) == {raw.rows[i][col] : i \in g}

\* x is the smallest (the largest) of the values S
IsMinOf(x, S) == x \in S /\ \A y \in S : x <= y
IsMaxOf(x, S) == x \in S /\ \A y \in S : x >= y

\* the sum of the traded volumes of the rows g is v
RECURSIVE IsVolumeOf(_, _)
IsVolumeOf(v, g) ==
    IF g = {} THEN v = 0
    ELSE LET i == CHOOSE j \in g : TRUE
         IN IsVolumeOf(v - raw.rows[i].TradedVolume, g \ {i})

\* C11 as claimed: for every (isin, date) group the minimum price of the
\* report is the minimum of the group's minimum prices, the maximum price is
\* the maximum of its maximum prices and the daily traded volume is the sum
\* of its traded volumes.
C11_MinMaxVolume ==
    report.ret = "returned" =>
        \A k \in ReportedGroups : \A n \in ReportRowsOf(k) :
            LET g == RawGroup(k[1], k[2])
            IN /\ IsMinOf(report.df.rows[n].minimum_price, RawValues(g, "MinPrice"))
               /\ IsMaxOf(report.df.rows[n].maximum_price, RawValues(g, "MaxPrice"))
               /\ IsVolumeOf(report.df.rows[n].daily_traded_volume, g)

\* C11 amended: for every (isin, date) group of the report the minimum price
\* is the minimum of the MinPrice values of the group's complete rows rounded
\* to 2 decimals, the maximum price is the maximum of their MaxPrice values
\* rounded to 2 decimals, and the daily traded volume is the sum of their
\* TradedVolume values.
C11_RoundedMinMaxVolume ==
    report.ret = "returned" =>
        \A k \in ReportedGroups : \A n \in ReportRowsOf(k) :
            LET g == RawGroup(k[1], k[2])
            IN /\ \E x \in RawValues(g, "MinPrice") :
                      /\ IsMinOf(x, RawValues(g, "MinPrice"))
                      /\ IsRounded2(report.df.rows[n].minimum_price, x)
               /\ \E x \in RawValues(g, "MaxPrice") :
                      /\ IsMaxOf(x, RawValues(g, "MaxPrice"))
                      /\ IsRounded2(report.df.rows[n].maximum_price, x)
               /\ IsVolumeOf(report.df.rows[n].daily_traded_volume, g)

\* a group of two complete rows whose minimum and maximum prices differ, the
\* smaller minimum and the larger maximum not in the same row, with its row
\* in the report
C11_Witness ==
    /\ report.ret = "returned"
    /\ Len(raw.rows) = 2
    /\ <<raw.rows[1].ISIN, raw.rows[1].Date>> \in ReportedGroups
    /\ RawGroup(raw.rows[1].ISIN, raw.rows[1].Date) = {1, 2}
    /\ raw.rows[1].MinPrice < raw.rows[2].MinPrice
    /\ raw.rows[1].MaxPrice < raw.rows[2].MaxPrice
    /\ Len(report.df.rows) = 1
    /\ report.df.rows[1].minimum_price = Round2(raw.rows[1].MinPrice)
    /\ report.df.rows[1].minimum_price # raw.rows[1].MinPrice
    /\ report.df.rows[1].maximum_price = Round2(raw.rows[2].MaxPrice)
    /\ report.df.rows[1].daily_traded_volume =
           raw.rows[1].TradedVolume + raw.rows[2].TradedVolume


\* the dates before date on which the instrument isin has a complete row
DatesBefore(isin, date) ==
    {raw.rows[i].Date : i \in {j \in CompleteRows :
                                  raw.rows[j].ISIN = isin /\ raw.rows[j].Date < date}}

\* v, in hundredths of a percent, is (a - b) / b * 100 rounded to 2 decimals
IsChangeOf(v, a, b) ==
    /\ b > 0
    /\ 2 * (v * b - 10000 * (a - b)) <= b
    /\ 2 * (10000 * (a - b) - v * b) <= b

C13_OneRowPerReportedGroup ==
    report.ret = "returned" =>
        /\ \A k \in ReportedGroups : Cardinality(ReportRowsOf(k)) = 1
        /\ \A n \in DOMAIN report.df.rows :
              /\ report.df.rows[n].Date >= extract_date
              /\ <<report.df.rows[n].ISIN, report.df.rows[n].Date>> \in ReportedGroups

\* the raw table has a complete row on the day before the cutoff date, which
\* gives the change of the row of the cutoff date, and a complete row of the
\* same instrument on the cutoff date: the report has the one row of the
\* cutoff date
C13_Witness ==
    /\ report.ret = "returned"
    /\ Len(raw.rows) = 2
    /\ CompleteRows = {1, 2}
    /\ raw.rows[1].ISIN = raw.rows[2].ISIN
    /\ raw.rows[1].Date = extract_date - 1
    /\ raw.rows[2].Date = extract_date
    /\ Len(report.df.rows) = 1
    /\ report.df.rows[1].Date = extract_date
    /\ report.df.rows[1].change_prev_closing # NaN


\* C14: transform_report1 on an empty raw table returns an empty table, the
\* table it was given, and does not raise, whatever the cutoff date and
\* whether or not the table has the configured columns.
C14_EmptyInEmptyOut ==
    report.ret # "none" /\ (Len(raw.rows) = 0 \/ Len(raw.cols) = 0) =>
        /\ report.ret = "returned"
        /\ report.err = "none"
        /\ Len(report.df.rows) = 0
        /\ report.df = raw

\* transform_report1 has returned for pd.DataFrame(), which has none of the
\* configured columns
C14_Witness ==
    /\ report.ret = "returned"
    /\ raw = DataFrame(<<>>, <<>>)
    /\ ~(Range(src_columns) \subseteq Range(raw.cols))
    /\ report.df = raw


IsWrite == io.op = "write_df_to_s3"

\* C18: write_df_to_s3 with an empty table makes no put, whatever the key and
\* the format: the objects of the bucket are as before, the key of the call
\* included, and the call returns None without raising.
C18_EmptyTableNotWritten ==
    IsWrite /\ (Len(io.df.rows) = 0 \/ Len(io.df.cols) = 0) =>
        /\ trg = io.pre
        /\ io.puts = 0
        /\ io.ret = "None"
        /\ io.err = "none"

\* write_df_to_s3 has returned for an empty table and a format that is not
\* supported, with an object already stored under the key
C18_Witness ==
    /\ IsWrite
    /\ Len(io.df.rows) = 0
    /\ io.format \notin {CSV, PARQUET}
    /\ io.pre[io.key].exists
    /\ io.ret = "None"
    /\ trg[io.key] = io.pre[io.key]

\* C19 as claimed: write_df_to_s3 with a format other than csv or parquet
\* fails with WrongFormatException and stores no object under the key.
C19_WrongFormatRaises ==
    IsWrite /\ io.format \notin {CSV, PARQUET} =>
        /\ io.ret = "raised"
        /\ io.err = "WrongFormatException"
        /\ trg = io.pre

\* C19 amended: write_df_to_s3 with a table that is not empty and a format
\* other than csv or parquet fails with WrongFormatException and stores no
\* object under the key.
C19_WrongFormatRaisesForRows ==
    IsWrite /\ io.format \notin {CSV, PARQUET}
            /\ Len(io.df.rows) > 0 /\ Len(io.df.cols) > 0 =>
        /\ io.ret = "raised"
        /\ io.err = "WrongFormatException"
        /\ io.puts = 0
        /\ trg = io.pre

\* write_df_to_s3 has raised for a table with a row and a format that is not
\* supported, and the key has no object
C19_Witness ==
    /\ IsWrite
    /\ Len(io.df.rows) = 1
    /\ io.format = "wrong_format"
    /\ io.err = "WrongFormatException"
    /\ ~trg[io.key].exists


HasRun == run.ret # "none"

\* the csv lines of the objects objs, one object after the other
RECURSIVE LinesOf(_)
LinesOf(objs) ==
    IF objs = <<>> THEN <<>> ELSE Head(objs).lines \o LinesOf(Tail(objs))

\* the csv lines of the source objects under the dates of the list, date by
\* date in the order of the list
RECURSIVE WindowLines(_)
WindowLines(dates) ==
    IF dates = <<>> THEN <<>>
    ELSE (IF Head(dates) \in DOMAIN src THEN LinesOf(src[Head(dates)]) ELSE <<>>)
             \o WindowLines(Tail(dates))

\* C20: extract returns the rows of every source object under a date of the
\* extraction window, date by date in the order of the window, indexed 0, 1,
\* 2, ...; a date without objects contributes nothing, and without any object,
\* as with an empty window, the result is the empty table.
C20_ExtractConcatenatesWindow ==
    HasRun =>
        LET lines == WindowLines(run.extract_date_list)
        IN /\ Len(raw.rows) = Len(lines)
           /\ \A i \in DOMAIN lines : \A j \in DOMAIN raw.cols :
                 raw.rows[i][raw.cols[j]] = lines[i][j]
           /\ lines # <<>> =>
                 \A d \in Range(run.extract_date_list) : \A k \in DOMAIN src[d] :
                     raw.cols = src[d][k].header
           /\ lines = <<>> => raw = DataFrame(<<>>, <<>>)
           /\ DOMAIN run.index = DOMAIN raw.rows
           /\ \A i \in DOMAIN run.index : run.index[i] = i - 1

\* a run whose window has a date without an object, a later date with one
\* object and a still later date with two: the extracted table has the three
\* rows in that order
C20_Witness ==
    /\ HasRun
    /\ Len(run.extract_date_list) = 3
    /\ src[run.extract_date_list[1]] = <<>>
    /\ Len(src[run.extract_date_list[2]]) = 1
    /\ Len(src[run.extract_date_list[3]]) = 2
    /\ Len(raw.rows) = 3
    /\ raw.rows[1].Date = run.extract_date_list[2]
    /\ raw.rows[2].Date = run.extract_date_list[3]
    /\ raw.rows[2].Time < raw.rows[3].Time
    /\ run.index = <<0, 1, 2>>


\* the dates of the sequence s that are on or after the date cutoff
DatesFrom(s, cutoff) == {s[i] : i \in {j \in DOMAIN s : s[j] >= cutoff}}

\* rows are watermark rows that record the dates D once each, in ascending
\* order, all processed at the time now
IsRecordOf(rows, D, now) ==
    /\ {rows[i][1] : i \in DOMAIN rows} = D
    /\ \A i \in DOMAIN rows : rows[i][2] = now
    /\ \A i \in DOMAIN rows : \A j \in DOMAIN rows : i < j => rows[i][1] < rows[j][1]

\* C15: a pipeline run that completes appends to the watermark exactly the
\* dates of its extraction window that are on or after its cutoff date, in
\* ascending order, so never the anchor date (cutoff - 1) and no date outside
\* the window; a run that raises appends nothing.
C15_RunRecordsWindowFromCutoff ==
    HasRun =>
        \E added \in {SubSeq(StoredRows(run.post), Len(StoredRows(run.pre)) + 1,
                             Len(StoredRows(run.post)))} :
            /\ StoredRows(run.post) = StoredRows(run.pre) \o added
            /\ run.ret = "True" =>
                  IsRecordOf(added, DatesFrom(run.extract_date_list, run.extract_date),
                             run.now)
            /\ run.ret # "True" => added = <<>>
            /\ \A i \in DOMAIN added :
                  added[i][1] \in Range(run.extract_date_list)
                      /\ added[i][1] # run.extract_date - 1

\* a completed run without a meta file whose window is the anchor date and
\* the two dates after it: the watermark has the two dates, not the anchor
C15_Witness ==
    /\ run.ret = "True"
    /\ ~run.pre.exists
    /\ Len(run.extract_date_list) = 3
    /\ run.extract_date_list[1] = run.extract_date - 1
    /\ Len(raw.rows) > 0
    /\ StoredRows(run.post) =
           <<<<run.extract_date, run.now>>, <<run.extract_date + 1, run.now>>>>


\* C16 as claimed: a run appends to the watermark only after it has stored
\* its report: the watermark has no new row after a run in which no report
\* object was stored.
C16_RecordsOnlyAfterReportStored ==
    HasRun /\ Len(StoredRows(run.post)) > Len(StoredRows(run.pre)) =>
        /\ run.report_puts = 1
        /\ trg[run.key].exists


\* the sequence s is a prefix of the sequence t
IsPrefix(s, t) == Len(s) <= Len(t) /\ \A i \in DOMAIN s : s[i] = t[i]

\* C17: the watermark is append-only: over every step of a sequence of
\* update_meta_file calls and pipeline runs of one writer, whether the step
\* succeeds, is empty or fails, a stored meta file stays stored with its
\* header, and the lines stored before the step are a prefix of the lines
\* stored after it.
C17_WatermarkAppendOnly ==
    [][/\ meta.exists => meta'.exists /\ meta'.body.header = meta.body.header
       /\ IsPrefix(meta.body.lines, meta'.body.lines)]_vars

\* after a call of update_meta_file that stored a row and a run that rewrote
\* the meta file without a new row, a second run has added a row to the two
\* steps' rows
C17_Witness ==
    /\ upd.made /\ upd.dates # <<>> /\ upd.err = "none"
    /\ run.n = 2
    /\ run.ret = "True"
    /\ run.meta_puts = 1
    /\ Len(run.pre.body.lines) > 0
    /\ Len(run.post.body.lines) > Len(run.pre.body.lines)
    /\ IsPrefix(run.pre.body.lines, meta.body.lines)
    /\ meta = run.post


\* the raw table without its rows that have a missing value
CompleteFrame ==
    DataFrame(raw.cols,
              SelectSeq(raw.rows, LAMBDA r : \A c \in Range(src_columns) : r[c] # NaN))

\* C21: a raw row with a missing value in a configured source column
\* contributes to no value of the report: the rows of the report are those
\* transform_report1 gives for the raw table without such rows, and a group
\* that has only such rows has no row in the report.
C21_IncompleteRowsContributeNothing ==
    report.ret = "returned" /\ Len(raw.rows) > 0 =>
        /\ \E p \in TimeOrders(CompleteFrame) :
              report.df.rows = TransformReport1(CompleteFrame, extract_date, p).df.rows
        /\ \A i \in DOMAIN raw.rows :
              RawGroup(raw.rows[i].ISIN, raw.rows[i].Date) = {} =>
                  ReportRowsOf(<<raw.rows[i].ISIN, raw.rows[i].Date>>) = {}

\* a group on the cutoff date with a complete row and a row without start
\* price, whose minimum price, maximum price and volume are not in the report
C21_Witness ==
    /\ report.ret = "returned"
    /\ Len(raw.rows) = 2
    /\ CompleteRows = {1}
    /\ raw.rows[2].StartPrice = NaN
    /\ raw.rows[1].ISIN = raw.rows[2].ISIN
    /\ raw.rows[1].Date = raw.rows[2].Date
    /\ raw.rows[2].Time < raw.rows[1].Time
    /\ raw.rows[2].MinPrice < raw.rows[1].MinPrice
    /\ raw.rows[2].MaxPrice > raw.rows[1].MaxPrice
    /\ Len(report.df.rows) = 1
    /\ report.df.rows[1].minimum_price = Round2(raw.rows[1].MinPrice)
    /\ report.df.rows[1].maximum_price = Round2(raw.rows[1].MaxPrice)
    /\ report.df.rows[1].daily_traded_volume = raw.rows[1].TradedVolume


\* the raw table with its rows in every order
Reorderings ==
    {DataFrame(raw.cols, [i \in DOMAIN raw.rows |-> raw.rows[q[i]]]) :
        q \in {f \in [DOMAIN raw.rows -> DOMAIN raw.rows] :
                  \A i, j \in DOMAIN raw.rows : i # j => f[i] # f[j]}}

\* no two rows of one (isin, date) group of the raw table have the same time
DistinctTimes ==
    \A i, j \in DOMAIN raw.rows :
        (i # j /\ raw.rows[i].ISIN = raw.rows[j].ISIN
               /\ raw.rows[i].Date = raw.rows[j].Date)
            => raw.rows[i].Time # raw.rows[j].Time

\* C22: when the rows of each (isin, date) group have distinct times, the
\* report does not depend on the order of the raw rows: transform_report1 of
\* the same rows concatenated in any other order, slices of disjoint dates
\* swapped included, returns the same report.
C22_ReportIndependentOfRowOrder ==
    report.ret = "returned" /\ DistinctTimes =>
        \A other \in Reorderings : \A p \in TimeOrders(other) :
            TransformReport1(other, extract_date, p) = report

\* the slice of the cutoff date comes before the slice of the day before it:
\* the report has the row of the cutoff date with its change
C22_Witness ==
    /\ report.ret = "returned"
    /\ Len(raw.rows) = 2
    /\ CompleteRows = {1, 2}
    /\ raw.rows[1].ISIN = raw.rows[2].ISIN
    /\ raw.rows[1].Date = extract_date
    /\ raw.rows[2].Date = extract_date - 1
    /\ raw.rows[1].StartPrice # raw.rows[2].StartPrice
    /\ Len(report.df.rows) = 1
    /\ report.df.rows[1].change_prev_closing # NaN
    /\ report.df.rows[1].change_prev_closing # 0


\* no execution other than w has written the meta file
OnlyWriter(w) == \A v \in Writers \ {w} : wr[v].pc # "done"

\* C23: a crash of update_meta_file between its read of the meta file and its
\* one put loses nothing: while an execution has read and not written, after
\* it has crashed there, and after it has raised, the stored meta file is the
\* one from before the call; after it has completed, the stored rows are the
\* old rows followed by the new rows. Nothing else is ever stored.
C23_CrashLosesNothing ==
    \A w \in Writers : OnlyWriter(w) =>
        /\ wr[w].pc \in {"idle", "read", "crashed", "raised"} => meta = hist.init
        /\ wr[w].pc = "done" =>
              /\ ~hist.init.exists \/ WellFormed(hist.init)
              /\ StoredRows(meta) = StoredRows(hist.init) \o StampedRows(wr[w].dates, today)
              /\ hist.init.exists => meta.body.header = hist.init.body.header

\* an execution with a date to add has read a meta file that has a row and
\* crashed before its put; nothing else has run
C23_Witness ==
    /\ wr[1].pc = "crashed"
    /\ wr[1].dates # <<>>
    /\ Len(wr[1].df_all.rows) = 2
    /\ wr[2].pc = "idle"
    /\ WellFormed(hist.init)
    /\ Len(hist.init.body.lines) = 1
    /\ meta = hist.init


AllDone == \A w \in Writers : wr[w].pc = "done"

\* the rows of the batch of the execution w
BatchRows(w) == StampedRows(wr[w].dates, today)

\* C24: when two executions of update_meta_file on the same key have both
\* read the meta file before either has written and both have made their
\* put, the meta file they leave has the old rows and the rows of the
\* execution that put last: the rows of the other batch are lost. When one
\* execution has finished before the other reads, the old rows and both
\* batches are stored, in the order of the executions.
C24_RaceLosesBatch ==
    AllDone =>
        /\ hist.raced /\ Len(hist.puts) = 2 =>
              StoredRows(meta) = StoredRows(hist.init) \o BatchRows(hist.puts[2])
        /\ ~hist.raced =>
              \E v \in Writers : \E w \in Writers \ {v} :
                  StoredRows(meta) =
                      StoredRows(hist.init) \o BatchRows(v) \o BatchRows(w)

\* both executions have read the meta file with its one row before either
\* wrote, each has written its own date, and the date written first is not
\* in the meta file
C24_Witness ==
    /\ AllDone
    /\ hist.raced
    /\ Len(hist.init.body.lines) = 1
    /\ Len(wr[1].dates) = 1 /\ Len(wr[2].dates) = 1
    /\ wr[1].dates # wr[2].dates
    /\ wr[hist.puts[1]].dates[1] \notin StoredDates(meta)
    /\ wr[hist.puts[2]].dates[1] \in StoredDates(meta)
    /\ Len(meta.body.lines) = 2


\* the meta file the run found is absent or well-formed
RunOnSoundMeta == ~run.pre.exists \/ WellFormed(run.pre)

\* C25 as claimed: a run configured with a target format that is not
\* supported raises WrongFormatException and appends nothing to the
\* watermark, whatever was extracted.
C25_WrongFormatAbortsRun ==
    HasRun /\ RunOnSoundMeta /\ run.trg_format \notin {CSV, PARQUET} =>
        /\ run.ret = "raised"
        /\ run.err = "WrongFormatException"
        /\ run.post = run.pre

\* C26 as claimed: a run whose raw table lacks a configured source column
\* raises, and neither a report object nor a watermark update is written,
\* whatever was extracted.
C26_MissingColumnAbortsRun ==
    HasRun /\ RunOnSoundMeta /\ run.trg_format \in {CSV, PARQUET}
           /\ ~(Range(src_columns) \subseteq Range(raw.cols)) =>
        /\ run.ret = "raised"
        /\ run.report_puts = 0
        /\ run.meta_puts = 0
        /\ run.post = run.pre


\* the dates of the set D in ascending order
RECURSIVE Ascending(_)
Ascending(D) ==
    IF D = {} THEN <<>>
    ELSE LET d == CHOOSE x \in D : \A y \in D : x <= y
         IN <<d>> \o Ascending(D \ {d})

\* the meta file that records the dates D and nothing else, once each and in
\* ascending order
MetaFileOf(D) ==
    Object(MetaBody(<<META_SOURCE_DATE_COL, META_PROCESS_COL>>, Ascending(D), 1))

\* C27: the result of return_date_list depends only on the set of stored
\* source dates within first_date .. today: the call returns the cutoff date
\* and the dates it returns on the meta file that records just that set, so
\* rows that are repeated, in another order, or for dates before first_date
\* (the anchor date first_date - 1 too) or after today change nothing.
C27_DependsOnDatesInRangeOnly ==
    (IsResolve /\ WellFormed(call.pre)) =>
        \E r \in {ReturnDateList(call.first_date,
                                 MetaFileOf(StoredDates(call.pre)
                                                \cap (call.first_date .. call.now)),
                                 call.now)} :
            /\ call.ret = "returned"
            /\ call.min_date = r.min_date
            /\ call.ret_dates = r.dates

\* return_date_list has returned dates for a meta file that has a date twice,
\* a later date before an earlier one, and the anchor date first_date - 1
C27_Witness ==
    /\ IsResolve /\ WellFormed(call.pre)
    /\ Len(call.pre.body.lines) > Cardinality(StoredDates(call.pre))
    /\ \E i \in DOMAIN call.pre.body.lines :
          i > 1 /\ StoredRows(call.pre)[i][1] < StoredRows(call.pre)[i - 1][1]
    /\ call.first_date - 1 \in StoredDates(call.pre)
    /\ call.ret_dates # <<>>
    /\ call.min_date = call.first_date


\* C30: for every first_date and every meta file that is absent or
\* well-formed, a list of dates that return_date_list returns and that is
\* not empty is the ascending run of consecutive dates, none repeated, from
\* the day before the returned cutoff date to today, and the cutoff date is
\* not before first_date.
C30_WindowIsRunFromAnchorToToday ==
    (IsResolve /\ (~call.pre.exists \/ WellFormed(call.pre)) /\ call.ret_dates # <<>>) =>
        /\ call.ret = "returned"
        /\ call.ret_dates[1] = call.min_date - 1
        /\ call.ret_dates[Len(call.ret_dates)] = call.now
        /\ \A i \in 1 .. (Len(call.ret_dates) - 1) :
              call.ret_dates[i + 1] = call.ret_dates[i] + 1
        /\ call.min_date >= call.first_date

\* return_date_list has returned a window that starts after first_date - 1:
\* the meta file records first_date and lacks a later date
C30_Witness ==
    /\ IsResolve /\ WellFormed(call.pre)
    /\ call.first_date \in StoredDates(call.pre)
    /\ call.min_date > call.first_date
    /\ Len(call.ret_dates) = 2
    /\ call.ret_dates[2] = call.now


\* the source_date column of a well-formed meta file, in stored order
StoredDateColumn(obj) == [i \in DOMAIN StoredRows(obj) |-> StoredRows(obj)[i][1]]

\* a step that is a run of etl_report1
IsEtlReport1Step == run'.n = run.n + 1

\* the step is a run that completes, started from no meta file or from a
\* well-formed one: afterwards the meta file records every date from
\* first_date to the day T
RecordsWholeRange(T) ==
    (IsEtlReport1Step /\ run'.ret = "True" /\ (~meta.exists \/ WellFormed(meta))) =>
        (run'.first_date .. T) \subseteq StoredDates(meta')

\* the step is the run that follows a completed run with the same first_date
IsRerunStep ==
    /\ IsEtlReport1Step
    /\ HasRun /\ run.ret = "True" /\ RunOnSoundMeta
    /\ run'.first_date = run.first_date

\* the run of the step resolves no date, stores no report and leaves the rows
\* of the meta file as they are
RerunDoesNothing ==
    /\ run'.ret = "True"
    /\ run'.extract_date_list = <<>>
    /\ run'.report_puts = 0
    /\ trg' = trg
    /\ meta'.exists = meta.exists
    /\ meta.exists => StoredRows(meta') = StoredRows(meta)

LeftByRunsFrom(obj, F, T) ==
    \/ ~obj.exists
    \/ /\ WellFormed(obj)
       /\ \E last \in F .. T : IsRun(StoredDateColumn(obj), F, last)

\* a run with first_date F made on day T that completes on such a meta file
\* leaves the dates F .. T, each once and ascending
RunExtendsTheRun ==
    (/\ IsEtlReport1Step /\ run'.ret = "True"
     /\ LeftByRunsFrom(meta, run'.first_date, run'.made_on)) =>
        IF run'.first_date <= run'.made_on
        THEN /\ WellFormed(meta')
             /\ IsRun(StoredDateColumn(meta'), run'.first_date, run'.made_on)
        ELSE meta' = meta

\* some source date is stored in two rows
HasDuplicate(obj) ==
    \E i \in DOMAIN StoredDateColumn(obj) : \E j \in DOMAIN StoredDateColumn(obj) :
        i < j /\ StoredDateColumn(obj)[i] = StoredDateColumn(obj)[j]

\* a run stores a duplicate only if a date of first_date .. T lacks in the
\* meta file while a later date is stored: first_date is earlier than the
\* dates recorded so far, or the recorded dates have a gap
DuplicateOnlyFromEarlierDateOrGap ==
    (/\ IsEtlReport1Step /\ WellFormed(meta) /\ WellFormed(meta')
     /\ ~HasDuplicate(meta) /\ HasDuplicate(meta')) =>
        \E d \in Unprocessed(run'.first_date, run'.made_on, meta) :
            \E later \in StoredDates(meta) : d < later

\* C29: completed runs with one first_date F, started from no meta file, keep
\* the source_date column the ascending run of the dates from F to the day of
\* the last run, each once: the first run leaves it so and every further run
\* extends it so; and a run adds a duplicate only when its first_date is
\* earlier than the recorded dates or the recorded dates have a gap.
C29_FixedFirstDateKeepsConsecutiveRun ==
    [][RunExtendsTheRun /\ DuplicateOnlyFromEarlierDateOrGap]_vars

\* a second run with first_date F, on a later day than the first, has
\* extended the run of dates that the first one left
C29_Witness ==
    /\ run.n = 2 /\ run.ret = "True"
    /\ WellFormed(run.pre) /\ WellFormed(run.post)
    /\ IsRun(StoredDateColumn(run.pre), run.first_date, run.made_on - 1)
    /\ IsRun(StoredDateColumn(run.post), run.first_date, run.made_on)
    /\ run.first_date < run.made_on

====
